---------------------------- MODULE Spec2Model ----------------------------
(* Grouped star formation (greta): the sink grouping of                    *)
(* assign_sink_group, the star formation of form_stars_from_group and the  *)
(* command-line driver main, as state machines over one particle store.    *)
(*                                                                         *)
(* Quantities are exact: a mass, a coordinate of a centre of mass or an    *)
(* energy is a rational <<numerator, denominator>> in lowest terms, in the *)
(* units MSun, pc, km/s and Myr.                                           *)
EXTENDS Integers, Sequences, FiniteSets, TLC

VARIABLES
    sinks,      \* the sink particle set: a sequence of sink records
    attrs,      \* names of the optional attributes the set carries
    params,     \* thresholds and limits the functions are called with
    pc,         \* position of the driver
    idx,        \* loop counter of the driver (the code's i)
    stars,      \* star particles collected by the driver
    history     \* the most recent call with its inputs and result, and the
                \* pending masses of the deferred calls

vars == <<sinks, attrs, params, pc, idx, stars, history>>

---------------------------------------------------------------------------
(* Bounds of the model *)

MaxSinks == 3       \* sinks of an input set
MaxMass == 2        \* mass of a sink of an input set
MaxStars == 2       \* masses the sampler returns in one call
MaxOps == 3         \* calls and accretions after the assignment phase
MaxRunSinks == 5    \* sinks of a set the driver is run on
FormSinks == 2      \* sinks of a set that stars are formed from

---------------------------------------------------------------------------
(* Exact arithmetic *)

Abs(n) == IF n < 0 THEN -n ELSE n

RECURSIVE GCD(_, _)
GCD(a, b) == IF b = 0 THEN a ELSE GCD(b, a % b)

\* the rational n/d (d # 0) in lowest terms with a positive denominator
Rat(n, d) ==
    LET s == IF d < 0 THEN -1 ELSE 1
        g == GCD(Abs(n), Abs(d))
    IN  <<(s * n) \div g, (s * d) \div g>>

Q(n) == <<n, 1>>
\* sums and comparisons go over the least common denominator
RAdd(a, b) ==
    LET g == GCD(a[2], b[2])
    IN  Rat(a[1] * (b[2] \div g) + b[1] * (a[2] \div g), a[2] * (b[2] \div g))
RSub(a, b) == RAdd(a, <<-b[1], b[2]>>)
RMul(a, b) == Rat(a[1] * b[1], a[2] * b[2])
RDiv(a, b) == Rat(a[1] * b[2], a[2] * b[1])
RLt(a, b) ==
    LET g == GCD(a[2], b[2]) IN a[1] * (b[2] \div g) < b[1] * (a[2] \div g)
RLe(a, b) ==
    LET g == GCD(a[2], b[2]) IN a[1] * (b[2] \div g) <= b[1] * (a[2] \div g)

RECURSIVE RSum(_)
RSum(s) == IF s = <<>> THEN Q(0) ELSE RAdd(Head(s), RSum(Tail(s)))

RECURSIVE RMax(_)
RMax(s) ==
    IF Len(s) = 1 THEN s[1]
    ELSE LET m == RMax(Tail(s)) IN IF RLt(Head(s), m) THEN m ELSE Head(s)

RECURSIVE IMax(_)
IMax(s) ==
    IF Len(s) = 1 THEN s[1]
    ELSE LET m == IMax(Tail(s)) IN IF Head(s) < m THEN m ELSE Head(s)

RECURSIVE IMin(_)
IMin(s) ==
    IF Len(s) = 1 THEN s[1]
    ELSE LET m == IMin(Tail(s)) IN IF m < Head(s) THEN m ELSE Head(s)

\* the square root of a perfect square
ISqrt(n) == CHOOSE r \in 0..n : r * r = n

RECURSIVE MakeSeq(_, _)
\* the sequence <<f(1), ..., f(n)>>
MakeSeq(f(_), n) == IF n = 0 THEN <<>> ELSE Append(MakeSeq(f, n - 1), f(n))

RECURSIVE SumOver(_, _)
\* f(1) + ... + f(n)
SumOver(f(_), n) == IF n = 0 THEN Q(0) ELSE RAdd(SumOver(f, n - 1), f(n))

RECURSIVE SelectIdx(_, _, _)
\* the indices j >= from of s with Test(s[j]), in increasing order
SelectIdx(s, Test(_), from) ==
    IF from > Len(s) THEN <<>>
    ELSE IF Test(s[from]) THEN <<from>> \o SelectIdx(s, Test, from + 1)
    ELSE SelectIdx(s, Test, from + 1)

---------------------------------------------------------------------------
(* Particle sets *)

\* sink_particles[sink_particles.in_group == i], as indices into the set
GroupMembers(S, i) == SelectIdx(S, LAMBDA p : p.in_group = i, 1)

\* Particles.total_mass
total_mass(S, members) == SumOver(LAMBDA j : S[members[j]].mass, Len(members))

\* Particles.center_of_mass: the mass-weighted mean of the positions
center_of_mass(S, members) ==
    LET M == total_mass(S, members)
        X(c) == RDiv(SumOver(LAMBDA j : RMul(S[members[j]].mass,
                                             Q(S[members[j]].position[c])),
                             Len(members)), M)
    IN  <<X(1), X(2), X(3)>>

\* Particles.center_of_mass_velocity
center_of_mass_velocity(S, members) ==
    LET M == total_mass(S, members)
        V(c) == RDiv(SumOver(LAMBDA j : RMul(S[members[j]].mass,
                                             Q(S[members[j]].velocity[c])),
                             Len(members)), M)
    IN  <<V(1), V(2), V(3)>>

\* |v|^2 of the difference between an integer vector and a rational one
OffsetSquared(p, com) ==
    LET d1 == RSub(Q(p[1]), com[1])
        d2 == RSub(Q(p[2]), com[2])
        d3 == RSub(Q(p[3]), com[3])
    IN  RAdd(RAdd(RMul(d1, d1), RMul(d2, d2)), RMul(d3, d3))

\* (p - com).length() > threshold
LengthExceeds(p, com, threshold) ==
    IF threshold < 0 THEN TRUE
    ELSE RLt(Q(threshold * threshold), OffsetSquared(p, com))

Norm2(v) == v[1] * v[1] + v[2] * v[2] + v[3] * v[3]

\* Particles.kinetic_energy: 0.5 * sum(m v^2)
kinetic_energy(P) ==
    RMul(Rat(1, 2), SumOver(LAMBDA j : RMul(P[j].mass, Q(Norm2(P[j].velocity))), Len(P)))

PairDistance(P, a, b) ==
    ISqrt(Norm2(<<P[a].position[1] - P[b].position[1],
                  P[a].position[2] - P[b].position[2],
                  P[a].position[3] - P[b].position[3]>>))

Pairs(P) == {ab \in (1..Len(P)) \X (1..Len(P)) : ab[1] < ab[2]}

\* the gravitational constant of potential_energy(), 6.674e-11 m^3 kg^-1
\* s^-2, in pc (km/s)^2 / MSun: 0.0043020078
GravitationalConstant == Rat(754, 175267)

RECURSIVE SumPairs(_, _)
\* the sum of m_a m_b / r_ab over the pairs ps
SumPairs(P, ps) ==
    IF ps = {} THEN Q(0)
    ELSE LET ab == CHOOSE x \in ps : TRUE
         IN  RAdd(RDiv(RMul(P[ab[1]].mass, P[ab[2]].mass), Q(PairDistance(P, ab[1], ab[2]))),
                  SumPairs(P, ps \ {ab}))

\* Energies: a finite rational, or an infinity (two particles of positive
\* mass at one position have potential energy -inf)
Finite(q) == [kind |-> 0, val |-> q]
PlusInf == [kind |-> 1, val |-> Q(0)]
MinusInf == [kind |-> -1, val |-> Q(0)]

\* a > b on energies
EnergyGt(a, b) ==
    \/ a.kind > b.kind
    \/ a.kind = 0 /\ b.kind = 0 /\ RLt(b.val, a.val)

\* kinetic_energy() + potential_energy(), with
\* potential_energy = -G * sum over pairs of m_a m_b / r_ab
total_energy(P) ==
    IF \E ab \in Pairs(P) : PairDistance(P, ab[1], ab[2]) = 0
    THEN MinusInf
    ELSE Finite(RSub(kinetic_energy(P),
                     RMul(GravitationalConstant, SumPairs(P, Pairs(P)))))

---------------------------------------------------------------------------
(* assign_sink_group *)

\* sink_particles.in_group.max()
MaxInGroup(S) == IMax(MakeSeq(LAMBDA j : S[j].in_group, Len(S)))

\* the set as the loop sees it: the sink carries the group index the
\* earlier passes gave it
WithInGroup(S, k, in_group) == [S EXCEPT ![k].in_group = in_group]

\* Check 1: distance_from_group_com > group_radius
fail1(S, k, i, P) ==
    LengthExceeds(S[k].position, center_of_mass(S, GroupMembers(S, i)), P.group_radius)

\* Check 2: speed_from_group_com > group_speed
fail2(S, k, i, P) ==
    LengthExceeds(S[k].velocity, center_of_mass_velocity(S, GroupMembers(S, i)),
                  P.group_speed)

\* Check 3: sink.birth_time - group_i.birth_time.min() > group_age
fail3(S, k, i, P) ==
    LET group_i == GroupMembers(S, i)
        age_difference ==
            S[k].birth_time
                - IMin(MakeSeq(LAMBDA j : S[group_i[j]].birth_time, Len(group_i)))
    IN  age_difference > P.group_age

\* kinetic plus potential energy of group i with a copy of the sink added
Etot(S, k, i) ==
    LET group_i == GroupMembers(S, i)
        group_and_sink == Append(MakeSeq(LAMBDA j : S[group_i[j]], Len(group_i)), S[k])
    IN  total_energy(group_and_sink)

\* Check 4 with >= for >: of two equally bound groups the first is kept
fail4NotLess(E, smallest_Etot) == ~EnergyGt(smallest_Etot, E)

\* Check 4: Etot > smallest_Etot
fail4(E, smallest_Etot) == EnergyGt(E, smallest_Etot)

\* One pass of the loop over the existing groups, for group i; st carries
\* smallest_Etot and the sink's in_group
GroupCheck(S, k, i, P, st) ==
    LET cur == WithInGroup(S, k, st.in_group)
    IN  IF fail1(cur, k, i, P) THEN st
        ELSE IF fail2(cur, k, i, P) THEN st
        ELSE IF fail3(cur, k, i, P) THEN st
        ELSE IF fail4(Etot(cur, k, i), st.smallest_Etot) THEN st
        ELSE [smallest_Etot |-> Etot(cur, k, i), in_group |-> i]

RECURSIVE GroupLoop(_, _, _, _, _, _)
\* for i in range(number_of_groups): i += 1; ...
GroupLoop(S, k, i, number_of_groups, P, st) ==
    IF i > number_of_groups THEN st
    ELSE GroupLoop(S, k, i + 1, number_of_groups, P, GroupCheck(S, k, i, P, st))

\* the sink that joined no group is left without one
OwnGroupMissing(in_group, number_of_groups) == in_group

\* the new group skips an index
OwnGroupSkipping(in_group, number_of_groups) ==
    IF in_group = 0 THEN number_of_groups + 2 ELSE in_group

\* the group index of the sink when the loop is over: its own new group if
\* it joined none
OwnGroup(in_group, number_of_groups) ==
    IF in_group = 0 THEN number_of_groups + 1 ELSE in_group

\* if not hasattr(sink, "in_group"): sink.in_group = 0 (a new attribute of
\* one particle is zero on the other particles of the set)
WithInGroupAttribute(S, A) ==
    IF "in_group" \in A THEN S
    ELSE MakeSeq(LAMBDA j : [S[j] EXCEPT !.in_group = 0], Len(S))

\* assign_sink_group(sink, sink_particles, ...) on the k-th sink of a set
\* that carries in_group: the set after the call
assign_sink_group(S, k, P) ==
    LET number_of_groups == MaxInGroup(S)
        st == GroupLoop(S, k, 1, number_of_groups, P,
                        [smallest_Etot |-> PlusInf, in_group |-> S[k].in_group])
    IN  IF S[k].initialised THEN S
        ELSE [S EXCEPT ![k].in_group = OwnGroup(st.in_group, number_of_groups),
                       ![k].initialised = TRUE]

---------------------------------------------------------------------------
(* form_stars_from_group *)

RECURSIVE Insert(_, _)
\* m put into a sequence of masses that does not increase
Insert(m, sorted) ==
    IF sorted = <<>> THEN <<m>>
    ELSE IF RLt(m, Head(sorted)) THEN <<Head(sorted)>> \o Insert(m, Tail(sorted))
    ELSE <<m>> \o sorted

RECURSIVE SortDescending(_)
\* sorted_by_attribute("mass").reversed(), on the masses
SortDescending(ms) ==
    IF ms = <<>> THEN <<>> ELSE Insert(Head(ms), SortDescending(Tail(ms)))

\* the value is stored on the first sink of the group only
SetPendingMassOnFirst(S, group, value) ==
    [S EXCEPT ![group[1]].group_next_primary_mass = value]

\* group.group_next_primary_mass = value
SetPendingMass(S, group, value) ==
    MakeSeq(LAMBDA j : IF \E g \in 1..Len(group) : group[g] = j
                       THEN [S[j] EXCEPT !.group_next_primary_mass = value]
                       ELSE S[j],
            Len(S))

\* group.group_next_primary_mass.max()
CachedMass(S, group) ==
    RMax(MakeSeq(LAMBDA j : S[group[j]].group_next_primary_mass, Len(group)))

\* the pending mass is never looked at
NoPendingMassEver(S, A, group) == TRUE

\* the group has no pending mass: the attribute is missing (AttributeError)
\* or all values are 0 MSun
NoPendingMass(S, A, group) ==
    \/ "group_next_primary_mass" \notin A
    \/ CachedMass(S, group) = Q(0)

\* the new draw replaces the cached value
NextMassRedrawn(S, A, group, draw) == Q(draw)

\* next_mass after the try block: the cached value, or the new draw
NextMass(S, A, group, draw) ==
    IF NoPendingMass(S, A, group) THEN Q(draw) ELSE CachedMass(S, group)

\* the masses of new_stars before sorting: next_mass, then masses[:-1]
NewStarMasses(next_mass, masses) ==
    <<next_mass>> \o MakeSeq(LAMBDA j : Q(masses[j]), Len(masses) - 1)

\* masses[0] is cached instead of masses[-1]
DeferredMassFirst(masses) == Q(masses[1])

\* the mass cached for the next call: masses[-1]
DeferredMass(masses) == Q(masses[Len(masses)])

\* new_stars[new_stars.origin_cloud == s.key].total_mass()
total_star_mass_nearby(new_stars, key) ==
    SumOver(LAMBDA j : IF new_stars[j].origin_cloud = key THEN new_stars[j].mass
                       ELSE Q(0),
            Len(new_stars))

\* the body of "for s in group" for one sink: its mass after the pass and
\* what the pass adds to excess_star_mass
RemoveSinkMass(mass, nearby, minimum_sink_mass) ==
    IF RLt(minimum_sink_mass, mass)
    THEN IF RLe(RSub(mass, nearby), minimum_sink_mass)
         THEN [mass |-> minimum_sink_mass,
               excess |-> RAdd(RSub(nearby, mass), minimum_sink_mass)]
         ELSE [mass |-> RSub(mass, nearby), excess |-> Q(0)]
    ELSE [mass |-> mass, excess |-> nearby]

RECURSIVE RemoveLoop(_, _, _, _, _, _)
\* for s in group: ..., from the j-th sink of the group on
RemoveLoop(S, group, j, new_stars, minimum_sink_mass, excess_star_mass) ==
    IF j > Len(group) THEN [sinks |-> S, excess_star_mass |-> excess_star_mass]
    ELSE LET s == group[j]
             r == RemoveSinkMass(S[s].mass, total_star_mass_nearby(new_stars, S[s].key),
                                 minimum_sink_mass)
         IN  RemoveLoop([S EXCEPT ![s].mass = r.mass], group, j + 1, new_stars,
                        minimum_sink_mass, RAdd(excess_star_mass, r.excess))

\* the excess star mass is not taken from the group
mass_ratioOne(S, group, excess_star_mass) == Q(1)

\* mass_ratio = 1 - excess_star_mass/group.total_mass()
mass_ratio(S, group, excess_star_mass) ==
    RSub(Q(1), RDiv(excess_star_mass, total_mass(S, group)))

\* group.mass *= mass_ratio
ScaleGroupMass(S, group, ratio) ==
    MakeSeq(LAMBDA j : IF \E g \in 1..Len(group) : group[g] = j
                       THEN [S[j] EXCEPT !.mass = RMul(@, ratio)]
                       ELSE S[j],
            Len(S))

\* if shrink_sinks: group.initial_density is read, which raises
\* AttributeError on a set that has no such attribute
ShrinkFails(A, shrink_sinks) == shrink_sinks /\ "initial_density" \notin A

\* group.radius = ((group.mass / group.initial_density) / (4/3 pi))**(1/3):
\* the radius is kept as the mass it is computed from
ShrinkSinks(S, group, shrink_sinks) ==
    MakeSeq(LAMBDA j : IF shrink_sinks /\ \E g \in 1..Len(group) : group[g] = j
                       THEN [S[j] EXCEPT !.radius = [shrunk |-> TRUE, of |-> S[j].mass]]
                       ELSE S[j],
            Len(S))

\* what new_masses may return for the budget mass_left with
\* exceed_mass=False: masses within the limits whose sum is within the
\* budget (a sum equal to the budget included)
SamplerMayReturn(masses, mass_left, P) ==
    /\ \A j \in 1..Len(masses) :
          P.lower_mass_limit <= masses[j] /\ masses[j] <= P.upper_mass_limit
    /\ RLe(SumOver(LAMBDA j : Q(masses[j]), Len(masses)), mass_left)

\* the sinks numpy.random.choice may draw for a star: those of the group
\* with a probability (mass fraction) above zero
MayHostStar(S, group) == {g \in 1..Len(group) : RLt(Q(0), S[group[g]].mass)}

\* form_stars_from_group(group_index, sink_particles, ...), with the values
\* the random sources give: draw, the mass of generate_next_mass; masses, the
\* result of new_masses; sample, the result of numpy.random.choice.  The
\* result is "exit" (no sink in the group), "deferred" (the group is not
\* massive enough), "no_stars" (the sampler returned nothing), "stars", or
\* "AttributeError" (shrink_sinks on a set without initial_density: the
\* call raises after the masses and the pending mass were changed, and
\* returns nothing).
form_stars_from_group(S, A, group_index, P, draw, masses, sample) ==
    LET group == GroupMembers(S, group_index)
        group_mass == total_mass(S, group)
        next_mass == NextMass(S, A, group, draw)
        S1 == IF NoPendingMass(S, A, group) THEN SetPendingMass(S, group, Q(draw)) ELSE S
        A1 == A \cup {"group_next_primary_mass"}
        number_of_stars == Len(masses)
        sorted == SortDescending(NewStarMasses(next_mass, masses))
        new_stars == MakeSeq(LAMBDA j : [mass |-> sorted[j], age |-> 0,
                                         in_group |-> group_index,
                                         origin_cloud |-> S[group[sample[j]]].key],
                             number_of_stars)
        S2 == SetPendingMass(S1, group, DeferredMass(masses))
        removed == RemoveLoop(S2, group, 1, new_stars, P.minimum_sink_mass, Q(0))
        S3 == ScaleGroupMass(removed.sinks, group,
                             mass_ratio(removed.sinks, group, removed.excess_star_mass))
        S4 == ShrinkSinks(S3, group, P.shrink_sinks)
        none == [sinks |-> S1, attrs |-> A1, next_mass |-> next_mass, stars |-> <<>>]
    IN  IF group = <<>>
        THEN [sinks |-> S, attrs |-> A, next_mass |-> Q(0), stars |-> <<>>,
              result |-> "exit"]
        ELSE IF RLt(group_mass, next_mass)
        THEN none @@ [result |-> "deferred"]
        ELSE IF number_of_stars = 0
        THEN none @@ [result |-> "no_stars"]
        ELSE IF ShrinkFails(A1, P.shrink_sinks)
        THEN [sinks |-> S3, attrs |-> A1, next_mass |-> next_mass, stars |-> <<>>,
              result |-> "AttributeError"]
        ELSE [sinks |-> S4, attrs |-> A1, next_mass |-> next_mass, stars |-> new_stars,
              result |-> "stars"]

---------------------------------------------------------------------------
(* Inputs *)

\* position, velocity and birth time of the sinks of an input set
SinkInputs ==
    {[position |-> <<0, 0, 0>>, velocity |-> <<0, 0, 0>>, birth_time |-> 0],
     [position |-> <<1, 0, 0>>, velocity |-> <<0, 0, 0>>, birth_time |-> 0],
     [position |-> <<2, 0, 0>>, velocity |-> <<0, 0, 0>>, birth_time |-> 0],
     [position |-> <<1, 0, 0>>, velocity |-> <<1, 0, 0>>, birth_time |-> 0],
     [position |-> <<1, 0, 0>>, velocity |-> <<0, 0, 0>>, birth_time |-> 1]}
\* group_radius, group_speed and group_age of a run
Thresholds == {<<0, 0, 0>>, <<1, 0, 0>>, <<1, 1, 0>>}

\* the radius of a sink of the input set
InputRadius == [shrunk |-> FALSE, of |-> Rat(1, 10)]

\* a sink as the driver hands it to assign_sink_group: not initialised, no
\* group index, no pending primary mass
NewSink(key, position, velocity, mass, birth_time) ==
    [key |-> key, position |-> position, velocity |-> velocity, mass |-> Q(mass),
     radius |-> InputRadius, birth_time |-> birth_time, in_group |-> 0,
     initialised |-> FALSE, group_next_primary_mass |-> Q(0)]

\* sorted_by_attribute('mass').reversed(): the masses do not increase
DescendingMass(S) == \A j \in 1..(Len(S) - 1) : RLe(S[j + 1].mass, S[j].mass)

\* history before any call
NoCall(n) ==
    [op |-> "none", arg |-> 0, result |-> "none", next_mass |-> Q(0), masses |-> <<>>,
     sample |-> <<>>, stars |-> <<>>, before |-> <<>>, attrs_before |-> {},
     pending |-> Q(0), deferred |-> [g \in 1..n |-> Q(0)], calls |-> <<>>]

DefaultParams ==
    [group_radius |-> 0, group_speed |-> 0, group_age |-> 0,
     lower_mass_limit |-> 1, upper_mass_limit |-> 3, minimum_sink_mass |-> Q(1),
     shrink_sinks |-> FALSE]

---------------------------------------------------------------------------
(* The assignment phase: assign_sink_group once per sink, in the order of   *)
(* the sorted set                                                          *)

InitAssign ==
    /\ \E n \in 1..MaxSinks :
         \E in \in [1..n -> SinkInputs], m \in [1..n -> 1..MaxMass] :
            /\ sinks = MakeSeq(LAMBDA j : NewSink(j, in[j].position, in[j].velocity,
                                                  m[j], in[j].birth_time), n)
            /\ DescendingMass(sinks)
    /\ \E t \in Thresholds :
         params = [DefaultParams EXCEPT !.group_radius = t[1], !.group_speed = t[2],
                                        !.group_age = t[3]]
    /\ attrs = {}
    /\ pc = "assign"
    /\ idx = 0
    /\ stars = <<>>
    /\ history = NoCall(Len(sinks))

\* one iteration of: for i, sink in enumerate(sinks): assign_sink_group(...)
Assign ==
    /\ pc = "assign"
    /\ idx < Len(sinks)
    /\ sinks' = assign_sink_group(WithInGroupAttribute(sinks, attrs), idx + 1, params)
    /\ attrs' = attrs \cup {"in_group"}
    /\ idx' = idx + 1
    /\ history' = [history EXCEPT !.op = "assign", !.arg = idx + 1, !.before = sinks,
                                  !.attrs_before = attrs]
    /\ UNCHANGED <<params, pc, stars>>

NextAssign == Assign

SpecAssign == InitAssign /\ [][NextAssign]_vars

---------------------------------------------------------------------------
(* The formation phase: form_stars_from_group on the groups of an assigned  *)
(* set, in any order and any number of times, the sinks accreting mass     *)
(* between the calls                                                       *)

RECURSIVE AssignAll(_, _, _)
\* the set after assign_sink_group on the sinks k..Len(S), in order
AssignAll(S, k, P) ==
    IF k > Len(S) THEN S ELSE AssignAll(assign_sink_group(S, k, P), k + 1, P)

\* positions of the sinks of the sets that stars are formed from
FormInputs == {x \in SinkInputs : x.velocity = <<0, 0, 0>> /\ x.birth_time = 0
                                  /\ x.position[1] <= 1}

\* mass a sink may gain between two calls
Accretions == {1, 6}

\* sequences of at most MaxStars masses within the limits
MassSequences(P) ==
    UNION {[1..k -> P.lower_mass_limit..P.upper_mass_limit] : k \in 0..MaxStars}

InitForm ==
    /\ \E n \in 1..FormSinks :
         \E in \in [1..n -> FormInputs], m \in [1..n -> 1..MaxMass] :
            LET S == MakeSeq(LAMBDA j : NewSink(j, in[j].position, in[j].velocity,
                                                m[j], in[j].birth_time), n)
            IN  /\ DescendingMass(S)
                /\ sinks = AssignAll(S, 1, DefaultParams)
    /\ \E shrink \in BOOLEAN : params = [DefaultParams EXCEPT !.shrink_sinks = shrink]
    /\ attrs \in {{"in_group"}} \cup
                 (IF params.shrink_sinks THEN {{"in_group", "initial_density"}} ELSE {})
    /\ pc = "form"
    /\ idx = 0
    /\ stars = <<>>
    /\ history = NoCall(Len(sinks))

\* the state after form_stars_from_group(group_index, sinks, ...) with the
\* random values draw, masses and sample
FormCall(group_index, draw, masses, sample) ==
    \E r \in {form_stars_from_group(sinks, attrs, group_index, params, draw, masses,
                                    sample)} :
        /\ sinks' = r.sinks
        /\ attrs' = r.attrs
        /\ history' =
              [op |-> "form", arg |-> group_index, result |-> r.result,
               next_mass |-> r.next_mass, masses |-> masses, sample |-> sample,
               stars |-> r.stars, before |-> sinks, attrs_before |-> attrs,
               calls |-> history.calls,
               pending |-> history.deferred[group_index],
               deferred |->
                  [history.deferred EXCEPT ![group_index] =
                      IF r.result = "deferred" THEN r.next_mass
                      ELSE IF r.result \in {"stars", "AttributeError"} THEN Q(0)
                      ELSE @]]

\* the masses generate_next_mass may return; the draw of a call on a group
\* that has a pending mass is discarded, whatever it is
Draws(group) ==
    IF NoPendingMass(sinks, attrs, group)
    THEN params.lower_mass_limit..params.upper_mass_limit
    ELSE {params.lower_mass_limit}

\* the results of new_masses a call may meet: none is asked for when the
\* group is not massive enough
Samples(group, next_mass) ==
    LET group_mass == total_mass(sinks, group)
    IN  IF RLt(group_mass, next_mass) THEN {<<>>}
        ELSE {ms \in MassSequences(params) :
                 SamplerMayReturn(ms, RSub(group_mass, next_mass), params)}

Form ==
    /\ pc = "form"
    /\ idx < MaxOps
    /\ \E group_index \in 1..MaxInGroup(sinks) :
         LET group == GroupMembers(sinks, group_index)
         IN  \E draw \in Draws(group) :
               \E masses \in Samples(group, NextMass(sinks, attrs, group, draw)) :
                  \E sample \in [1..Len(masses) -> MayHostStar(sinks, group)] :
                     FormCall(group_index, draw, masses, sample)
    /\ idx' = idx + 1
    /\ UNCHANGED <<params, pc, stars>>

\* a sink gains mass between two calls
Accrete ==
    /\ pc = "form"
    /\ idx < MaxOps
    /\ \E k \in 1..Len(sinks), dm \in Accretions :
         /\ sinks' = [sinks EXCEPT ![k].mass = RAdd(@, Q(dm))]
         /\ history' = [NoCall(Len(sinks)) EXCEPT !.op = "accrete", !.arg = k,
                                                  !.before = sinks,
                                                  !.attrs_before = attrs,
                                                  !.deferred = history.deferred]
    /\ idx' = idx + 1
    /\ UNCHANGED <<attrs, params, pc, stars>>

NextForm == Form \/ Accrete

SpecForm == InitForm /\ [][NextForm]_vars

---------------------------------------------------------------------------
(* main: the driver, on a sink file that has positions and masses only     *)

RECURSIVE InsertByMass(_, _)
\* the particle put into a sequence of increasing mass, after the particles
\* of the same mass
InsertByMass(particle, sorted) ==
    IF sorted = <<>> THEN <<particle>>
    ELSE IF RLt(particle.mass, Head(sorted).mass) THEN <<particle>> \o sorted
    ELSE <<Head(sorted)>> \o InsertByMass(particle, Tail(sorted))

RECURSIVE SortedByMass(_, _)
\* sorted_by_attribute('mass') of the first n particles
SortedByMass(S, n) ==
    IF n = 0 THEN <<>> ELSE InsertByMass(S[n], SortedByMass(S, n - 1))

\* .reversed()
Reversed(S) == MakeSeq(LAMBDA j : S[Len(S) + 1 - j], Len(S))

\* the progress step "if i % int(N/5) == 0" raises ZeroDivisionError
ProgressStepFails(N) == N \div 5 = 0

InitMain ==
    /\ \E n \in 1..MaxRunSinks :
         \E x \in [1..n -> 0..(n - 1)], m \in [1..n -> 1..MaxMass] :
            /\ \A j \in 1..n : x[j] \in {0, j - 1}
            /\ sinks = MakeSeq(LAMBDA j : NewSink(j, <<x[j], 0, 0>>, <<0, 0, 0>>, m[j], 0),
                               n)
            /\ attrs \in {{"position", "mass"}} \cup
                         (IF n = 1 THEN {{"mass"}} ELSE {})
    /\ params = [DefaultParams EXCEPT !.upper_mass_limit = 2,
                                      !.minimum_sink_mass = Rat(1, 100)]
    /\ pc = "start"
    /\ idx = 0
    /\ stars = <<>>
    /\ history = NoCall(Len(sinks))

\* from read_set_from_file to the first loop: the missing attributes get
\* their defaults, no sink is initialised, the set is sorted by mass,
\* heaviest first
MainSetup ==
    /\ pc = "start"
    /\ IF "position" \notin attrs
       THEN pc' = "exit" /\ UNCHANGED <<sinks, attrs>>
       ELSE /\ sinks' =
                 Reversed(SortedByMass(
                    MakeSeq(LAMBDA j :
                               [sinks[j] EXCEPT
                                   !.velocity = IF "velocity" \in attrs THEN @
                                                ELSE <<0, 0, 0>>,
                                   !.radius = IF "radius" \in attrs THEN @
                                              ELSE InputRadius,
                                   !.birth_time = IF "birth_time" \in attrs THEN @ ELSE 0,
                                   !.initialised = FALSE],
                            Len(sinks)),
                    Len(sinks)))
            /\ attrs' = attrs \cup {"velocity", "radius", "birth_time", "initialised"}
            /\ pc' = "main_assign"
    /\ UNCHANGED <<params, idx, stars, history>>

\* one iteration of the first loop: the progress step, then
\* assign_sink_group on the sink
MainAssign ==
    /\ pc = "main_assign"
    /\ idx < Len(sinks)
    /\ IF ProgressStepFails(Len(sinks))
       THEN pc' = "ZeroDivisionError" /\ UNCHANGED <<sinks, attrs, idx, history>>
       ELSE /\ sinks' = assign_sink_group(WithInGroupAttribute(sinks, attrs), idx + 1,
                                          params)
            /\ attrs' = attrs \cup {"in_group"}
            /\ idx' = idx + 1
            /\ history' = [history EXCEPT !.op = "assign", !.arg = idx + 1,
                                          !.before = sinks, !.attrs_before = attrs,
                                          !.calls = Append(@, <<"assign", idx + 1>>)]
            /\ pc' = pc
    /\ UNCHANGED <<params, stars>>

\* between the loops: the check for ungrouped sinks
MainCheck ==
    /\ pc = "main_assign"
    /\ idx = Len(sinks)
    /\ pc' = IF \E j \in 1..Len(sinks) : sinks[j].in_group <= 0 THEN "exit"
             ELSE "main_form"
    /\ idx' = 0
    /\ UNCHANGED <<sinks, attrs, params, stars, history>>

\* one iteration of the second loop: the progress step, then
\* form_stars_from_group on the group i + 1; the stars are added to the set
MainForm ==
    /\ pc = "main_form"
    /\ idx < MaxInGroup(sinks)
    /\ IF ProgressStepFails(MaxInGroup(sinks))
       THEN pc' = "ZeroDivisionError" /\ UNCHANGED <<sinks, attrs, idx, stars, history>>
       ELSE /\ LET group == GroupMembers(sinks, idx + 1)
               IN  \E draw \in Draws(group) :
                     \E masses \in Samples(group, NextMass(sinks, attrs, group, draw)) :
                        \E sample \in [1..Len(masses) -> MayHostStar(sinks, group)] :
                           \E r \in {form_stars_from_group(sinks, attrs, idx + 1, params,
                                                           draw, masses, sample)} :
                              /\ sinks' = r.sinks
                              /\ attrs' = r.attrs
                              /\ stars' = stars \o r.stars
                              /\ pc' = IF r.result = "exit" THEN "exit" ELSE pc
                              /\ history' =
                                    [history EXCEPT
                                        !.op = "form", !.arg = idx + 1,
                                        !.result = r.result, !.next_mass = r.next_mass,
                                        !.masses = masses, !.sample = sample,
                                        !.stars = r.stars, !.before = sinks,
                                        !.attrs_before = attrs,
                                        !.calls = Append(@, <<"form", idx + 1>>)]
            /\ idx' = idx + 1
    /\ UNCHANGED params

\* after the loops: the summary (number, total, largest and average star
\* mass) and the star file; the summary of an empty star set ends as the
\* particle library decides
MainFinish ==
    /\ pc = "main_form"
    /\ idx = MaxInGroup(sinks)
    /\ IF stars = <<>> THEN pc' \in {"done", "no_stars_error"} ELSE pc' = "done"
    /\ UNCHANGED <<sinks, attrs, params, idx, stars, history>>

NextMain == MainSetup \/ MainAssign \/ MainCheck \/ MainForm \/ MainFinish

SpecMain == InitMain /\ [][NextMain]_vars

---------------------------------------------------------------------------
(* Properties of the assignment phase (SpecAssign) *)

InitialisedSinks == {j \in 1..Len(sinks) : sinks[j].initialised}

\* C1: when assign_sink_group has been called once on every sink of the
\* set, every sink has a group index >= 1, so the driver's check for
\* ungrouped sinks (in_group <= 0) finds none.
C1_GroupCoverage ==
    (pc = "assign" /\ idx = Len(sinks)) =>
        \A j \in 1..Len(sinks) : sinks[j].in_group >= 1

\* all sinks of a set of three are assigned, two of them share a group and
\* the third has its own
C1_Witness ==
    /\ pc = "assign" /\ idx = Len(sinks) /\ Len(sinks) = 3
    /\ MaxInGroup(sinks) = 2

\* the set before the most recent call of assign_sink_group, as the call
\* sees it
BeforeAssign == WithInGroupAttribute(history.before, history.attrs_before)

\* the groups that pass the distance, speed and age checks for sink k
PassingGroups(S, k, P) ==
    {i \in 1..MaxInGroup(S) :
        ~fail1(S, k, i, P) /\ ~fail2(S, k, i, P) /\ ~fail3(S, k, i, P)}

\* the passing groups whose energy with the sink is the minimum
MostBoundGroups(S, k, P) ==
    {i \in PassingGroups(S, k, P) :
        \A j \in PassingGroups(S, k, P) : ~EnergyGt(Etot(S, k, i), Etot(S, k, j))}

SetMin(T) == CHOOSE x \in T : \A y \in T : x <= y
SetMax(T) == CHOOSE x \in T : \A y \in T : x >= y

\* C6 as stated: a sink for which some group passes the three checks gets
\* the group of minimum energy, and of several groups of the same minimum
\* energy the one with the lowest index.
C6_LowestIndexOnTie ==
    (history.op = "assign" /\ PassingGroups(BeforeAssign, history.arg, params) # {}) =>
        sinks[history.arg].in_group =
            SetMin(MostBoundGroups(BeforeAssign, history.arg, params))

\* C6 amended: a sink for which some group passes the three checks gets the
\* group of minimum energy, and of several groups of the same minimum energy
\* the one with the highest index (the last one the loop meets).
C6_HighestIndexOnTie ==
    (history.op = "assign" /\ PassingGroups(BeforeAssign, history.arg, params) # {}) =>
        sinks[history.arg].in_group =
            SetMax(MostBoundGroups(BeforeAssign, history.arg, params))

\* a sink was assigned when two groups had the same minimum energy
C6_Witness ==
    /\ history.op = "assign"
    /\ Cardinality(MostBoundGroups(BeforeAssign, history.arg, params)) >= 2
    /\ sinks[history.arg].in_group =
          SetMax(MostBoundGroups(BeforeAssign, history.arg, params))

\* C7: after every call of assign_sink_group the group indices of the
\* initialised sinks are exactly 1..G with 1 <= G <= number of initialised
\* sinks, G is not below its value before the call, and no group 1..G is
\* empty (the error exit of form_stars_from_group is not taken).
C7_ContiguousGroups ==
    history.op = "assign" =>
        LET G == MaxInGroup(sinks)
        IN  /\ 1 <= G /\ G <= Cardinality(InitialisedSinks)
            /\ {sinks[j].in_group : j \in InitialisedSinks} = 1..G
            /\ MaxInGroup(BeforeAssign) <= G
            /\ \A i \in 1..G : GroupMembers(sinks, i) # <<>>

\* the third call put the sink into the first of two existing groups
C7_Witness ==
    /\ history.op = "assign" /\ history.arg = 3
    /\ MaxInGroup(BeforeAssign) = 2 /\ MaxInGroup(sinks) = 2
    /\ sinks[3].in_group = 1

---------------------------------------------------------------------------
(* Properties of the formation phase (SpecForm) *)

\* the sinks of the group of the most recent call, before and after it
CalledGroup == GroupMembers(sinks, history.arg)
IsForm == history.op = "form"
FormedStars == IsForm /\ history.result = "stars"
\* the call got past the deferral check with a non-empty sample: the stars
\* were made, whether the call then returned them or raised
MadeStars == IsForm /\ history.result \in {"stars", "AttributeError"}
StarMasses == MakeSeq(LAMBDA j : history.stars[j].mass, Len(history.stars))
GroupMassBefore == total_mass(history.before, GroupMembers(history.before, history.arg))
GroupMassAfter == total_mass(sinks, CalledGroup)

\* the call returned (it did not raise) and returned no stars
ReturnedNoStars == IsForm /\ history.result \in {"deferred", "no_stars"}

\* C2: the mass of the stars a call returns plus the mass of the group's
\* sinks after the call is the mass of the group's sinks before it; a call
\* that returns no stars leaves the mass of the group as it was.
C2_MassConservation ==
    /\ FormedStars => RAdd(RSum(StarMasses), GroupMassAfter) = GroupMassBefore
    /\ ReturnedNoStars => GroupMassAfter = GroupMassBefore /\ history.stars = <<>>

\* a call returned two stars and the excess star mass was taken from the
\* whole group: a sink that hosted no star lost mass
C2_Witness ==
    /\ FormedStars /\ Len(history.stars) = 2 /\ Len(CalledGroup) = 2
    /\ \E g \in 1..2 :
          /\ \A j \in 1..2 : history.stars[j].origin_cloud # sinks[CalledGroup[g]].key
          /\ RLt(sinks[CalledGroup[g]].mass, history.before[CalledGroup[g]].mass)

\* C3: a sink of the group whose mass was at least minimum_sink_mass before
\* a call has a mass of at least minimum_sink_mass after it.
C3_MinimumSinkMassFloor ==
    IsForm =>
        \A g \in 1..Len(CalledGroup) :
            RLe(params.minimum_sink_mass, history.before[CalledGroup[g]].mass) =>
                RLe(params.minimum_sink_mass, sinks[CalledGroup[g]].mass)

\* C4 as stated: the call that returns stars after a deferred call with
\* pending mass p returns a star of mass p, and no star of that call is
\* more massive than p.
C4_PendingIsMostMassive ==
    (FormedStars /\ history.pending # Q(0)) =>
        /\ \E j \in 1..Len(StarMasses) : StarMasses[j] = history.pending
        /\ \A j \in 1..Len(StarMasses) : RLe(StarMasses[j], history.pending)

\* C4 amended: the first call that makes stars after a deferred call with
\* pending mass p uses p as its next_mass, and if it returns its stars, one
\* of them has mass p.
C4_PendingMassFormed ==
    (MadeStars /\ history.pending # Q(0)) =>
        /\ history.next_mass = history.pending
        /\ FormedStars => \E j \in 1..Len(StarMasses) : StarMasses[j] = history.pending

\* a call was deferred, the group gained mass and the next call formed stars
C4_Witness ==
    /\ FormedStars /\ history.pending # Q(0)
    /\ RLe(history.pending, GroupMassBefore)

\* C5: a call on a group less massive than next_mass returns no stars and
\* changes nothing but the pending mass, which is next_mass on the sinks of
\* the group afterwards and unchanged on the other sinks; a deferred call
\* that follows a deferred call has the same next_mass.
C5_DeferredLeavesState ==
    (IsForm /\ history.result = "deferred") =>
        /\ history.stars = <<>>
        /\ RLt(GroupMassBefore, history.next_mass)
        /\ \A j \in 1..Len(sinks) :
              /\ sinks[j] = [history.before[j] EXCEPT !.group_next_primary_mass =
                                                        sinks[j].group_next_primary_mass]
              /\ sinks[j].group_next_primary_mass =
                    IF sinks[j].in_group = history.arg THEN history.next_mass
                    ELSE history.before[j].group_next_primary_mass
        /\ history.pending # Q(0) => history.next_mass = history.pending

\* a deferred call followed a deferred call on the same group
C5_Witness ==
    /\ IsForm /\ history.result = "deferred" /\ history.pending # Q(0)
    /\ Len(sinks) = 2

\* C8: the sinks of a group carry the same pending mass, and a call does
\* not change the pending mass of a sink of another group.
C8_PendingMassConsistent ==
    /\ \A j, l \in 1..Len(sinks) :
          sinks[j].in_group = sinks[l].in_group =>
              sinks[j].group_next_primary_mass = sinks[l].group_next_primary_mass
    /\ IsForm =>
          \A j \in 1..Len(sinks) :
              sinks[j].in_group # history.arg =>
                  sinks[j].group_next_primary_mass =
                      history.before[j].group_next_primary_mass

\* a call formed stars from a group of two sinks while another call had
\* left a pending mass before
C8_Witness ==
    /\ FormedStars /\ Len(CalledGroup) = 2
    /\ history.before[CalledGroup[1]].group_next_primary_mass # Q(0)
    /\ sinks[CalledGroup[1]].group_next_primary_mass #
          history.before[CalledGroup[1]].group_next_primary_mass

\* how often the mass m is in the sequence ms
Count(m, ms) == Cardinality({j \in 1..Len(ms) : ms[j] = m})
SampledMasses == MakeSeq(LAMBDA j : Q(history.masses[j]), Len(history.masses))
SmallestSampled == Q(IMin(history.masses))
LastSampled == Q(history.masses[Len(history.masses)])

\* the stars have the masses next_mass and the sampled masses but one d, and
\* d is the pending mass of the group afterwards
StarsAreSampledBut(d) ==
    /\ \A m \in {StarMasses[j] : j \in 1..Len(StarMasses)}
              \cup {SampledMasses[j] : j \in 1..Len(SampledMasses)}
              \cup {history.next_mass} :
          Count(m, StarMasses) =
              Count(m, SampledMasses) + (IF m = history.next_mass THEN 1 ELSE 0)
                  - (IF m = d THEN 1 ELSE 0)
    /\ \A g \in 1..Len(CalledGroup) : sinks[CalledGroup[g]].group_next_primary_mass = d

\* C9 as stated: the stars of a call have the masses next_mass and the
\* sampled masses without the smallest, which is the pending mass afterwards.
C9_SmallestDeferred == FormedStars => StarsAreSampledBut(SmallestSampled)

\* C9 amended: the stars of a call have the masses next_mass and the sampled
\* masses without the last one m_k, which is the pending mass afterwards.
C9_LastDeferred == FormedStars => StarsAreSampledBut(LastSampled)

\* the sampler returned two masses, the smaller one first
C9_Witness ==
    /\ FormedStars /\ Len(history.masses) = 2
    /\ history.masses[1] < history.masses[2]

---------------------------------------------------------------------------
(* Properties of the driver (SpecMain) *)

\* the calls of a complete run on n sinks in g groups: assign_sink_group on
\* every sink, then form_stars_from_group on every group
CompleteRun(n, g) ==
    MakeSeq(LAMBDA j : <<"assign", j>>, n) \o MakeSeq(LAMBDA j : <<"form", j>>, g)

\* C10: for every set of N >= 1 sinks with positions the run is not aborted
\* by the progress step of either loop, and a run that ends has called
\* assign_sink_group once per sink and then form_stars_from_group once per
\* group 1..Ngroup.
C10_RunCompletes ==
    /\ pc # "ZeroDivisionError"
    /\ pc = "done" => history.calls = CompleteRun(Len(sinks), MaxInGroup(sinks))

=============================================================================
